---- MODULE Spec2Model ----
(***************************************************************************)
(* Model of smartsheet_past_due_agent_wide.py: the past-due milestone      *)
(* agent.  Strings are sequences of one-character strings, so that strip,  *)
(* lower, the m<digits> pattern, int() and date parsing are computed and   *)
(* not assumed.  Python values are tagged records (None, str, int).        *)
(***************************************************************************)
EXTENDS Integers, Sequences, FiniteSets, TLC

VARIABLES
    env_token,      \* os.getenv("SMARTSHEET_TOKEN")
    env_sheet_id,   \* os.getenv("SMARTSHEET_SHEET_ID")
    env_webhook,    \* os.getenv("SLACK_WEBHOOK_URL", "")
    pc,             \* position of main()
    sheet,          \* the document returned by fetch_sheet
    today,          \* get_today_local()
    milestone_sets, \* the schema list of detect_milestone_sets
    results,        \* the list returned by find_past_due_milestones
    summary,        \* format_summary(results)
    stdout,         \* what print() has written, one entry per call
    calls,          \* network requests made so far, in order
    post_outcome,   \* what happened to requests.post
    exit_status,    \* "running", "ok" (exit 0) or "error" (unhandled exception)
    error,          \* which exception ended the run
    prev_sets       \* schema list detected before the last column reordering

vars == <<env_token, env_sheet_id, env_webhook, pc, sheet, today, milestone_sets,
          results, summary, stdout, calls, post_outcome, exit_status, error,
          prev_sets>>

-----------------------------------------------------------------------------
(* Bounds of the model *)

MaxRows == 2
MaxCols == 6

-----------------------------------------------------------------------------
(* Characters and strings *)

UpperChars == <<"A","B","C","D","E","F","G","H","I","J","K","L","M",
                "N","O","P","Q","R","S","T","U","V","W","X","Y","Z">>
LowerChars == <<"a","b","c","d","e","f","g","h","i","j","k","l","m",
                "n","o","p","q","r","s","t","u","v","w","x","y","z">>
DigitChars == <<"0","1","2","3","4","5","6","7","8","9">>
Whitespace == {" ", "\t", "\n"}

IsDigit(c) == \E i \in 1..10 : DigitChars[i] = c
DigitVal(c) == (CHOOSE i \in 1..10 : DigitChars[i] = c) - 1

\* str.lower(), one character
lower_char(c) ==
    IF \E i \in 1..26 : UpperChars[i] = c
    THEN LowerChars[CHOOSE i \in 1..26 : UpperChars[i] = c]
    ELSE c

\* str.lower()
str_lower(s) == [i \in 1..Len(s) |-> lower_char(s[i])]

RECURSIVE str_lstrip(_)
str_lstrip(s) ==
    IF s # <<>> /\ Head(s) \in Whitespace THEN str_lstrip(Tail(s)) ELSE s

RECURSIVE str_rstrip(_)
str_rstrip(s) ==
    IF s # <<>> /\ s[Len(s)] \in Whitespace
    THEN str_rstrip(SubSeq(s, 1, Len(s) - 1))
    ELSE s

\* str.strip()
str_strip(s) == str_rstrip(str_lstrip(s))

\* int() of a string of decimal digits (leading zeros allowed)
RECURSIVE py_int(_)
py_int(s) ==
    IF s = <<>> THEN 0
    ELSE 10 * py_int(SubSeq(s, 1, Len(s) - 1)) + DigitVal(s[Len(s)])

\* str() of a non-negative int
RECURSIVE int_str(_)
int_str(n) ==
    IF n < 10 THEN <<DigitChars[n + 1]>>
    ELSE Append(int_str(n \div 10), DigitChars[(n % 10) + 1])

\* str.replace("Z", "+00:00")
RECURSIVE replace_Z(_)
replace_Z(s) ==
    IF s = <<>> THEN <<>>
    ELSE IF Head(s) = "Z" THEN <<"+","0","0",":","0","0">> \o replace_Z(Tail(s))
    ELSE <<Head(s)>> \o replace_Z(Tail(s))

-----------------------------------------------------------------------------
(* Python values *)

PyNone == [t |-> "none", s |-> <<>>, n |-> 0]
PyStr(s) == [t |-> "str", s |-> s, n |-> 0]
PyInt(n) == [t |-> "int", s |-> <<>>, n |-> n]

\* truth value of a Python value (bool(v))
truthy(v) ==
    CASE v.t = "none" -> FALSE
      [] v.t = "str" -> v.s # <<>>
      [] v.t = "int" -> v.n # 0

\* str(v)
py_str(v) ==
    CASE v.t = "none" -> <<"N","o","n","e">>
      [] v.t = "str" -> v.s
      [] v.t = "int" -> int_str(v.n)

\* a or b
py_or(a, b) == IF truthy(a) THEN a ELSE b

-----------------------------------------------------------------------------
(* Calendar dates: records [y, m, d]; NoDate stands for None *)

NoDate == [y |-> 0, m |-> 0, d |-> 0]
Date(y, m, d) == [y |-> y, m |-> m, d |-> d]

is_leap(y) == (y % 4 = 0) /\ ((y % 100 # 0) \/ (y % 400 = 0))

days_in_month(y, m) ==
    IF m = 2 THEN (IF is_leap(y) THEN 29 ELSE 28)
    ELSE IF m \in {4, 6, 9, 11} THEN 30 ELSE 31

RECURSIVE days_before_month(_, _)
days_before_month(y, m) ==
    IF m = 1 THEN 0 ELSE days_before_month(y, m - 1) + days_in_month(y, m - 1)

\* date.toordinal()
toordinal(dt) ==
    LET y1 == dt.y - 1
    IN  y1 * 365 + (y1 \div 4) - (y1 \div 100) + (y1 \div 400)
        + days_before_month(dt.y, dt.m) + dt.d

\* date.__lt__: compares (year, month, day)
date_lt(a, b) ==
    \/ a.y < b.y
    \/ a.y = b.y /\ a.m < b.m
    \/ a.y = b.y /\ a.m = b.m /\ a.d < b.d

\* (a - b).days
days_between(a, b) == toordinal(a) - toordinal(b)

pad(n, w) ==
    LET s == int_str(n)
    IN  [i \in 1..(w - Len(s)) |-> "0"] \o s

\* date.isoformat()
isoformat(dt) == pad(dt.y, 4) \o <<"-">> \o pad(dt.m, 2) \o <<"-">> \o pad(dt.d, 2)

AllDigits(s) == \A i \in 1..Len(s) : IsDigit(s[i])

\* the time part HH[:MM[:SS]] of an ISO string
valid_hms(s) ==
    /\ Len(s) \in {2, 5, 8}
    /\ \A i \in 1..Len(s) : IF i \in {3, 6} THEN s[i] = ":" ELSE IsDigit(s[i])
    /\ py_int(SubSeq(s, 1, 2)) < 24
    /\ Len(s) >= 5 => py_int(SubSeq(s, 4, 5)) < 60
    /\ Len(s) = 8 => py_int(SubSeq(s, 7, 8)) < 60

\* the UTC offset +HH:MM / -HH:MM
valid_offset(s) ==
    /\ Len(s) = 6
    /\ s[1] \in {"+", "-"}
    /\ valid_hms(SubSeq(s, 2, 6))

\* the part after the date separator: HH[:MM[:SS]][+HH:MM]
valid_time(s) ==
    \/ valid_hms(s)
    \/ \E k \in 2..Len(s) :
          /\ valid_hms(SubSeq(s, 1, k))
          /\ valid_offset(SubSeq(s, k + 1, Len(s)))

\* datetime.fromisoformat(s).date(); NoDate when it raises ValueError.
\* Covers YYYY-MM-DD, optionally followed by one separator character and
\* HH[:MM[:SS]][+HH:MM]; every other string is a ValueError.
fromisoformat_date(s) ==
    IF /\ Len(s) >= 10
       /\ \A i \in 1..10 : IF i \in {5, 8} THEN s[i] = "-" ELSE IsDigit(s[i])
    THEN LET y == py_int(SubSeq(s, 1, 4))
             m == py_int(SubSeq(s, 6, 7))
             d == py_int(SubSeq(s, 9, 10))
         IN  IF /\ y >= 1
                /\ m \in 1..12
                /\ d >= 1
                /\ d <= days_in_month(y, m)
                /\ \/ Len(s) = 10
                   \/ Len(s) >= 12 /\ valid_time(SubSeq(s, 12, Len(s)))
             THEN Date(y, m, d)
             ELSE NoDate
    ELSE NoDate

\* parse_date(val)
parse_date(val) ==
    IF ~truthy(val) THEN NoDate
    ELSE fromisoformat_date(replace_Z(py_str(val)))

normalize_status_nostrip(val) ==
    IF val.t = "none" THEN <<>> ELSE str_lower(py_str(val))

\* normalize_status(val)
normalize_status(val) ==
    IF val.t = "none" THEN <<>> ELSE str_lower(str_strip(py_str(val)))

COMPLETED_VALUES ==
    { <<"c","o","m","p","l","e","t","e","d">>,
      <<"c","o","m","p","l","e","t","e">>,
      <<"d","o","n","e">>,
      <<"c","l","o","s","e","d">>,
      <<"1","0","0","%">> }

-----------------------------------------------------------------------------
(* Python dicts keep insertion order: a dict is a sequence of [k, v] pairs   *)
(* with distinct keys; assigning an existing key keeps its position.         *)

dict_has(d, k) == \E i \in 1..Len(d) : d[i].k = k
dict_get(d, k) == d[CHOOSE i \in 1..Len(d) : d[i].k = k].v
dict_set(d, k, v) ==
    IF dict_has(d, k)
    THEN [i \in 1..Len(d) |-> IF d[i].k = k THEN [k |-> k, v |-> v] ELSE d[i]]
    ELSE Append(d, [k |-> k, v |-> v])

\* A column is [title, id, primary]; ids are positive, 0 stands for None.
NoId == 0

RECURSIVE build_column_maps_loop(_, _)
build_column_maps_loop(columns, acc) ==
    IF columns = <<>> THEN acc
    ELSE LET c == Head(columns)
         IN  build_column_maps_loop(Tail(columns),
                [title_to_id |-> dict_set(acc.title_to_id, c.title, c.id),
                 norm_to_id |-> dict_set(acc.norm_to_id,
                                         str_lower(str_strip(c.title)), c.id),
                 primary_col_id |-> IF c.primary THEN c.id
                                    ELSE acc.primary_col_id])

\* build_column_maps(sheet)
build_column_maps(sh) ==
    build_column_maps_loop(sh.columns,
        [title_to_id |-> <<>>, norm_to_id |-> <<>>, primary_col_id |-> NoId])

\* A cell is [columnId, has_value, value, has_display, displayValue]:
\* has_value says the key "value" is in the cell, has_display the key
\* "displayValue".
RECURSIVE cell_value(_, _)
cell_value(row, col_id) ==
    IF row = <<>> THEN PyNone
    ELSE LET cell == Head(row)
         IN  IF cell.columnId = col_id
             THEN IF cell.has_value THEN cell.value
                  ELSE IF cell.has_display THEN cell.displayValue
                  ELSE PyNone
             ELSE cell_value(Tail(row), col_id)

\* re.compile(r"^m(\d+)$").match(norm_title)
base_re_match(norm_title) ==
    /\ Len(norm_title) >= 2
    /\ norm_title[1] = "m"
    /\ AllDigits(Tail(norm_title))

\* list.sort(key=...) is stable: an element goes after the elements whose
\* key is not larger than its own (ascending).
RECURSIVE sort_sets_insert(_, _)
sort_sets_insert(sorted, x) ==
    IF sorted = <<>> THEN <<x>>
    ELSE IF py_int(Tail(x.label)) < py_int(Tail(Head(sorted).label))
         THEN <<x>> \o sorted
         ELSE <<Head(sorted)>> \o sort_sets_insert(Tail(sorted), x)

\* a < b for strings of digits, character by character
RECURSIVE digits_lt(_, _)
digits_lt(a, b) ==
    IF b = <<>> THEN FALSE
    ELSE IF a = <<>> THEN TRUE
    ELSE IF Head(a) = Head(b) THEN digits_lt(Tail(a), Tail(b))
    ELSE DigitVal(Head(a)) < DigitVal(Head(b))

RECURSIVE sort_sets_by_label_insert(_, _)
sort_sets_by_label_insert(sorted, x) ==
    IF sorted = <<>> THEN <<x>>
    ELSE IF digits_lt(Tail(x.label), Tail(Head(sorted).label))
         THEN <<x>> \o sorted
         ELSE <<Head(sorted)>> \o sort_sets_by_label_insert(Tail(sorted), x)

RECURSIVE sort_sets_by_label(_)
sort_sets_by_label(sets) ==
    IF sets = <<>> THEN <<>>
    ELSE sort_sets_by_label_insert(
             sort_sets_by_label(SubSeq(sets, 1, Len(sets) - 1)), sets[Len(sets)])

RECURSIVE sort_sets(_)
\* sets.sort(key=lambda x: int(x["label"][1:]))
sort_sets(sets) ==
    IF sets = <<>> THEN <<>>
    ELSE sort_sets_insert(sort_sets(SubSeq(sets, 1, Len(sets) - 1)),
                          sets[Len(sets)])

\* date_key in norm_to_id and status_key in norm_to_id
companions(norm_to_id, base) ==
    /\ dict_has(norm_to_id, base \o <<" ","d","a","t","e">>)
    /\ dict_has(norm_to_id, base \o <<" ","s","t","a","t","u","s">>)

\* the loop of detect_milestone_sets over norm_to_id.keys(), from key i on
RECURSIVE detect_loop(_, _)
detect_loop(norm_to_id, i) ==
    IF i > Len(norm_to_id) THEN <<>>
    ELSE LET norm_title == norm_to_id[i].k
             n == Tail(norm_title)
             base == <<"m">> \o n
         IN  IF base_re_match(norm_title) /\ companions(norm_to_id, base)
             THEN <<[label |-> <<"M">> \o n,
                     title_id |-> dict_get(norm_to_id, base),
                     date_id |-> dict_get(norm_to_id,
                                    base \o <<" ","d","a","t","e">>),
                     status_id |-> dict_get(norm_to_id,
                                    base \o <<" ","s","t","a","t","u","s">>)]>>
                  \o detect_loop(norm_to_id, i + 1)
             ELSE detect_loop(norm_to_id, i + 1)

detect_milestone_sets_unsorted(norm_to_id) == detect_loop(norm_to_id, 1)

\* detect_milestone_sets(norm_to_id)
detect_milestone_sets(norm_to_id) == sort_sets(detect_loop(norm_to_id, 1))

-----------------------------------------------------------------------------
(* find_past_due_milestones *)

UNNAMED_PROJECT ==
    PyStr(<<"(","U","n","n","a","m","e","d"," ","P","r","o","j","e","c","t",")">>)

\* due_dt < today and normalize_status(status_val) not in COMPLETED_VALUES
past_due_incomplete(due_dt, today_, status_val) ==
    /\ date_lt(due_dt, today_)
    /\ normalize_status(status_val) \notin COMPLETED_VALUES

\* the loop "for ms in milestone_sets" for one row, from schema entry i on
RECURSIVE hits_loop(_, _, _, _)
hits_loop(row, sets, today_, i) ==
    IF i > Len(sets) THEN <<>>
    ELSE LET ms == sets[i]
             title == py_or(cell_value(row, ms.title_id), PyStr(ms.label))
             due_val == cell_value(row, ms.date_id)
             status_val == cell_value(row, ms.status_id)
             due_dt == parse_date(due_val)
         IN  IF due_dt = NoDate THEN hits_loop(row, sets, today_, i + 1)
             ELSE IF past_due_incomplete(due_dt, today_, status_val)
             THEN <<[milestone |-> title,
                     label |-> ms.label,
                     due |-> isoformat(due_dt),
                     days |-> days_between(today_, due_dt),
                     status |-> status_val]>>
                  \o hits_loop(row, sets, today_, i + 1)
             ELSE hits_loop(row, sets, today_, i + 1)

\* list.sort(key=..., reverse=True) is stable: an element goes after the
\* elements whose key is not smaller than its own (descending).
RECURSIVE sort_hits_insert(_, _)
sort_hits_insert(sorted, x) ==
    IF sorted = <<>> THEN <<x>>
    ELSE IF x.days > Head(sorted).days
         THEN <<x>> \o sorted
         ELSE <<Head(sorted)>> \o sort_hits_insert(Tail(sorted), x)

RECURSIVE sort_hits_insert_before_equal(_, _)
sort_hits_insert_before_equal(sorted, x) ==
    IF sorted = <<>> THEN <<x>>
    ELSE IF x.days >= Head(sorted).days
         THEN <<x>> \o sorted
         ELSE <<Head(sorted)>> \o sort_hits_insert_before_equal(Tail(sorted), x)

RECURSIVE sort_hits_unstable(_)
sort_hits_unstable(hits) ==
    IF hits = <<>> THEN <<>>
    ELSE sort_hits_insert_before_equal(
             sort_hits_unstable(SubSeq(hits, 1, Len(hits) - 1)), hits[Len(hits)])

RECURSIVE sort_hits(_)
\* hits.sort(key=lambda x: x["days"], reverse=True)
sort_hits(hits) ==
    IF hits = <<>> THEN <<>>
    ELSE sort_hits_insert(sort_hits(SubSeq(hits, 1, Len(hits) - 1)),
                          hits[Len(hits)])

RECURSIVE sort_results_insert(_, _)
sort_results_insert(sorted, x) ==
    IF sorted = <<>> THEN <<x>>
    ELSE IF x.hits[1].days > Head(sorted).hits[1].days
         THEN <<x>> \o sorted
         ELSE <<Head(sorted)>> \o sort_results_insert(Tail(sorted), x)

RECURSIVE sort_results_insert_before_equal(_, _)
sort_results_insert_before_equal(sorted, x) ==
    IF sorted = <<>> THEN <<x>>
    ELSE IF x.hits[1].days >= Head(sorted).hits[1].days
         THEN <<x>> \o sorted
         ELSE <<Head(sorted)>> \o sort_results_insert_before_equal(Tail(sorted), x)

RECURSIVE sort_results_unstable(_)
sort_results_unstable(rs) ==
    IF rs = <<>> THEN <<>>
    ELSE sort_results_insert_before_equal(
             sort_results_unstable(SubSeq(rs, 1, Len(rs) - 1)), rs[Len(rs)])

RECURSIVE sort_results(_)
\* results.sort(key=lambda r: r["hits"][0]["days"], reverse=True)
sort_results(rs) ==
    IF rs = <<>> THEN <<>>
    ELSE sort_results_insert(sort_results(SubSeq(rs, 1, Len(rs) - 1)),
                             rs[Len(rs)])

\* The loop "for row in sheet.get('rows', [])", from row r on. A result is
\* the dict {"project", "hits"} of the source; row_index is an auxiliary
\* field, absent from the source, that records which row the result came
\* from.
RECURSIVE rows_loop(_, _, _, _, _)
rows_loop(rows, primary_col_id, sets, today_, r) ==
    IF r > Len(rows) THEN <<>>
    ELSE LET project == py_or(cell_value(rows[r], primary_col_id), UNNAMED_PROJECT)
             hits == hits_loop(rows[r], sets, today_, 1)
         IN  IF hits # <<>>
             THEN <<[project |-> project, hits |-> sort_hits(hits),
                     row_index |-> r]>>
                  \o rows_loop(rows, primary_col_id, sets, today_, r + 1)
             ELSE rows_loop(rows, primary_col_id, sets, today_, r + 1)

no_milestone_sets_never(sets) == FALSE

\* if not milestone_sets: raise RuntimeError(...)
no_milestone_sets(sets) == sets = <<>>

\* find_past_due_milestones(sheet), with today = get_today_local();
\* raised says it ended in the RuntimeError.
find_past_due_milestones(sh, today_) ==
    LET maps == build_column_maps(sh)
        sets == detect_milestone_sets(maps.norm_to_id)
    IN  IF no_milestone_sets(sets)
        THEN [raised |-> TRUE, milestone_sets |-> sets, results |-> <<>>]
        ELSE [raised |-> FALSE, milestone_sets |-> sets,
              results |-> sort_results(
                  rows_loop(sh.rows, maps.primary_col_id, sets, today_, 1))]

-----------------------------------------------------------------------------
(* format_summary: the text is the sequence of its lines; a line is the      *)
(* f-string template that produces it and the values substituted into it.   *)

Line(fmt, args) == [fmt |-> fmt, args |-> args]

\* The message of the source ends in the emoji U+1F389.
NO_PAST_DUE == Line("No past-due incomplete milestones found (U+1F389)", <<>>)

RECURSIVE sum_hits(_)
\* sum(len(r["hits"]) for r in results)
sum_hits(rs) == IF rs = <<>> THEN 0 ELSE Len(Head(rs).hits) + sum_hits(Tail(rs))

hit_lines(hits) ==
    [i \in 1..Len(hits) |->
        Line("   - {} ({}) | Due: {} | Overdue: {}d | Status: {}",
             <<hits[i].milestone, PyStr(hits[i].label), PyStr(hits[i].due),
               PyInt(hits[i].days), hits[i].status>>)]

RECURSIVE project_lines(_)
\* the bullet of the source is U+2022
project_lines(rs) ==
    IF rs = <<>> THEN <<>>
    ELSE <<Line("(U+2022) {}", <<Head(rs).project>>)>> \o hit_lines(Head(rs).hits)
         \o <<Line("", <<>>)>> \o project_lines(Tail(rs))

\* "\n".join(lines).strip(): the leading line starts with a letter; at the
\* end the blank line goes, and so does white space ending the last line
\* (the status of the last hit).
strip_lines(lines) ==
    LET body == SubSeq(lines, 1, Len(lines) - 1)
        last == body[Len(body)]
        st == str_rstrip(py_str(last.args[Len(last.args)]))
    IN  [body EXCEPT ![Len(body)] =
            IF st = <<>>
            THEN Line("   - {} ({}) | Due: {} | Overdue: {}d | Status:",
                      SubSeq(last.args, 1, Len(last.args) - 1))
            ELSE Line(last.fmt, [last.args EXCEPT ![Len(last.args)] = PyStr(st)])]

format_summary_header_always(rs) ==
    <<Line("Past-due milestones (not completed): {}", <<PyInt(sum_hits(rs))>>),
      Line("Projects impacted: {}", <<PyInt(Len(rs))>>)>>

\* format_summary(results)
format_summary(rs) ==
    IF rs = <<>> THEN <<NO_PAST_DUE>>
    ELSE strip_lines(
            <<Line("Past-due milestones (not completed): {}", <<PyInt(sum_hits(rs))>>),
              Line("Projects impacted: {}", <<PyInt(Len(rs))>>),
              Line("", <<>>)>>
            \o project_lines(rs))

-----------------------------------------------------------------------------
(* Configuration read at import time *)

\* SLACK_WEBHOOK_URL = os.getenv("SLACK_WEBHOOK_URL", "").strip()
SLACK_WEBHOOK_URL ==
    str_strip(IF env_webhook = PyNone THEN <<>> ELSE env_webhook.s)

missing_config_token_only(token, sheet_id) == ~truthy(token)

\* not SMARTSHEET_TOKEN or not SHEET_ID
missing_config(token, sheet_id) == ~truthy(token) \/ ~truthy(sheet_id)

-----------------------------------------------------------------------------
(* Inputs: environments, documents and dates the runs are checked on *)

\* String literals used by the inputs
S_PROJECT == <<"P","r","o","j","e","c","t">>
S_M1 == <<"M","1">>
S_M1DATE == <<"M","1"," ","D","a","t","e">>
S_M1STATUS == <<"M","1"," ","S","t","a","t","u","s">>
S_M2 == <<"M","2">>
S_M2DATE == <<"M","2"," ","D","a","t","e">>
S_M2STATUS == <<"M","2"," ","S","t","a","t","u","s">>
S_ALPHA == <<"A","l","p","h","a">>
S_BETA == <<"B","e","t","a">>
S_KICKOFF == <<"K","i","c","k","o","f","f">>
S_D0101 == <<"2","0","2","0","-","0","1","-","0","1">>
S_D0109 == <<"2","0","2","0","-","0","1","-","0","9">>
S_D0110 == <<"2","0","2","0","-","0","1","-","1","0">>
S_D0111 == <<"2","0","2","0","-","0","1","-","1","1">>
S_D0109Z == <<"2","0","2","0","-","0","1","-","0","9","T","2","3",":","5","9",":","5","9","Z">>
S_NOTADATE == <<"n","o","t","-","a","-","d","a","t","e">>
S_D0230 == <<"2","0","2","0","-","0","2","-","3","0">>
S_D1231 == <<"2","0","1","9","-","1","2","-","3","1">>
S_D0229 == <<"2","0","2","0","-","0","2","-","2","9">>
S_OPEN == <<"O","p","e","n">>
S_COMPLETED_SP == <<" ","C","o","m","p","l","e","t","e","d"," ">>
S_COMPLETE_UP == <<"C","O","M","P","L","E","T","E">>
S_DONE == <<"d","o","n","e">>
S_CLOSED == <<"C","l","o","s","e","d">>
S_100PCT == <<"1","0","0","%">>
S_INPROGRESS == <<"i","n"," ","p","r","o","g","r","e","s","s">>
S_M01 == <<"M","0","1">>
S_M01DATE == <<"M","0","1"," ","D","a","t","e">>
S_M01STATUS == <<"M","0","1"," ","S","t","a","t","u","s">>
S_M1_PADDED == <<" ","m","1"," ">>
S_M10 == <<"M","1","0">>
S_M10DATE == <<"M","1","0"," ","d","a","t","e">>
S_M10STATUS == <<"M","1","0"," ","S","T","A","T","U","S">>
S_DONE_TAB == <<"D","o","n","e","\t">>

EnvValues == {PyNone, PyStr(<<>>), PyStr(<<"x","1">>)}
WebhookValues == {PyNone, PyStr(<<" "," ">>), PyStr(<<"h","t","t","p","s",":","/","/","h","/","w">>)}

Todays == {Date(2020, 1, 10), Date(2020, 3, 1)}

Column(title, id, primary) == [title |-> title, id |-> id, primary |-> primary]
Cell(id, v) ==
    [columnId |-> id, has_value |-> TRUE, value |-> v,
     has_display |-> FALSE, displayValue |-> PyNone]
CellBoth(id, v, dv) ==
    [columnId |-> id, has_value |-> TRUE, value |-> v,
     has_display |-> TRUE, displayValue |-> dv]
CellDisplay(id, dv) ==
    [columnId |-> id, has_value |-> FALSE, value |-> PyNone,
     has_display |-> TRUE, displayValue |-> dv]
CellEmpty(id) ==
    [columnId |-> id, has_value |-> FALSE, value |-> PyNone,
     has_display |-> FALSE, displayValue |-> PyNone]


\* [Project(primary), M1, M1 Date, M1 Status]
ColumnsOne ==
    <<Column(S_PROJECT, 1, TRUE), Column(S_M1, 2, FALSE),
      Column(S_M1DATE, 3, FALSE), Column(S_M1STATUS, 4, FALSE)>>

\* two milestone sets, M2 listed before M1
ColumnsTwo ==
    <<Column(S_PROJECT, 1, TRUE),
      Column(S_M2, 5, FALSE), Column(S_M2DATE, 6, FALSE), Column(S_M2STATUS, 7, FALSE),
      Column(S_M1, 2, FALSE), Column(S_M1DATE, 3, FALSE), Column(S_M1STATUS, 4, FALSE)>>

\* no complete milestone set: M1 has no status column
ColumnsPartial ==
    <<Column(S_PROJECT, 1, TRUE), Column(S_M1, 2, FALSE), Column(S_M1DATE, 3, FALSE)>>

\* a cell of column id per variant; <<>> is a row without a cell for it
ProjectCells ==
    { <<>>, <<CellEmpty(1)>>, <<Cell(1, PyStr(S_ALPHA))>>,
      <<CellDisplay(1, PyStr(S_BETA))>>, <<CellBoth(1, PyInt(0), PyStr(<<"0">>))>> }

TitleCells ==
    { <<>>, <<Cell(2, PyStr(S_KICKOFF))>>, <<CellBoth(2, PyInt(0), PyStr(<<"0">>))>> }

DateStrings ==
    { <<>>, S_D0101, S_D0109, S_D0110, S_D0111, S_D0109Z, S_NOTADATE,
      S_D0230, S_D1231, S_D0229 }

DateCells ==
    { <<>>, <<CellEmpty(3)>>, <<Cell(3, PyInt(0))>>, <<Cell(3, PyInt(5))>>,
      <<CellDisplay(3, PyStr(S_D0101))>> }
    \cup { <<Cell(3, PyStr(d))>> : d \in DateStrings }

StatusStrings ==
    { <<>>, S_OPEN, S_COMPLETED_SP, S_COMPLETE_UP, S_DONE, S_CLOSED, S_100PCT,
      S_INPROGRESS, S_DONE_TAB }

StatusCells ==
    { <<>>, <<Cell(4, PyInt(100))>> } \cup { <<Cell(4, PyStr(t))>> : t \in StatusStrings }

\* one row over ColumnsOne, every combination of the cell variants
SheetsOne ==
    { [columns |-> ColumnsOne, rows |-> << st \o d \o t \o p >>] :
        p \in ProjectCells, t \in TitleCells, d \in DateCells, st \in StatusCells }

DueCells(id) == { <<>>, <<Cell(id, PyStr(S_D0101))>>, <<Cell(id, PyStr(S_D0109))>> }

\* rows over ColumnsTwo: each milestone without date, 9 or 1 days late (for
\* the first of Todays), open; and one row whose M1 is done
RowsTwo ==
    { <<Cell(1, PyStr(S_ALPHA))>> \o d1 \o d2 : d1 \in DueCells(3), d2 \in DueCells(6) }
    \cup { <<Cell(1, PyStr(S_BETA)), Cell(3, PyStr(S_D0101)), Cell(4, PyStr(S_DONE)),
             Cell(6, PyStr(S_D0109))>> }

RECURSIVE SeqsUpTo(_, _)
SeqsUpTo(S, n) ==
    IF n = 0 THEN {<<>>}
    ELSE LET shorter == SeqsUpTo(S, n - 1)
         IN  shorter \cup { Append(q, x) : q \in shorter, x \in S }

SheetsTwo == { [columns |-> ColumnsTwo, rows |-> rs] : rs \in SeqsUpTo(RowsTwo, MaxRows) }

\* documents without a milestone set, with and without rows
SheetsNoSets ==
    { [columns |-> cs, rows |-> rs] :
        cs \in {<<>>, ColumnsPartial},
        rs \in {<<>>, <<<<Cell(1, PyStr(S_ALPHA)), Cell(3, PyStr(S_D0101))>>>>} }

Sheets == SheetsOne \cup SheetsTwo \cup SheetsNoSets

NoSheet == [columns |-> <<>>, rows |-> <<>>]

-----------------------------------------------------------------------------
(* main() *)

Init ==
    /\ env_token \in EnvValues
    /\ env_sheet_id \in EnvValues
    /\ env_webhook \in WebhookValues
    /\ pc = "start"
    /\ sheet = NoSheet
    /\ today = NoDate
    /\ milestone_sets = <<>>
    /\ results = <<>>
    /\ summary = <<>>
    /\ stdout = <<>>
    /\ calls = <<>>
    /\ post_outcome = "none"
    /\ exit_status = "running"
    /\ error = "none"
    /\ prev_sets = <<>>

\* main: the check of the required configuration
CheckConfig ==
    /\ pc = "start"
    /\ IF missing_config(env_token, env_sheet_id)
       THEN /\ pc' = "done"
            /\ exit_status' = "error"
            /\ error' = "RuntimeError: Missing SMARTSHEET_TOKEN or SMARTSHEET_SHEET_ID."
       ELSE /\ pc' = "fetch"
            /\ UNCHANGED <<exit_status, error>>
    /\ UNCHANGED <<env_token, env_sheet_id, env_webhook, sheet, today, milestone_sets,
                   results, summary, stdout, calls, post_outcome, prev_sets>>

\* sheet = fetch_sheet(SHEET_ID): the request is made; it raises (transport
\* failure or raise_for_status) or returns the document
FetchSheet ==
    /\ pc = "fetch"
    /\ calls' = Append(calls, "GET sheet")
    /\ \/ /\ pc' = "done"
          /\ exit_status' = "error"
          /\ error' = "requests.RequestException"
          /\ UNCHANGED sheet
       \/ /\ \E sh \in Sheets : sheet' = sh
          /\ pc' = "find"
          /\ UNCHANGED <<exit_status, error>>
    /\ UNCHANGED <<env_token, env_sheet_id, env_webhook, today, milestone_sets,
                   results, summary, stdout, post_outcome, prev_sets>>

\* results = find_past_due_milestones(sheet)
FindPastDue ==
    /\ pc = "find"
    /\ \E t \in Todays :
          LET r == find_past_due_milestones(sheet, t)
          IN  /\ today' = t
              /\ milestone_sets' = r.milestone_sets
              /\ results' = r.results
              /\ IF r.raised
                 THEN /\ pc' = "done"
                      /\ exit_status' = "error"
                      /\ error' = "RuntimeError: No milestone columns found"
                 ELSE /\ pc' = "format"
                      /\ UNCHANGED <<exit_status, error>>
    /\ UNCHANGED <<env_token, env_sheet_id, env_webhook, sheet, summary, stdout,
                   calls, post_outcome, prev_sets>>

\* summary = format_summary(results); print(summary)
PrintSummary ==
    /\ pc = "format"
    /\ summary' = format_summary(results)
    /\ stdout' = Append(stdout, format_summary(results))
    /\ pc' = "post"
    /\ UNCHANGED <<env_token, env_sheet_id, env_webhook, sheet, today, milestone_sets,
                   results, calls, post_outcome, exit_status, error, prev_sets>>

\* post_to_slack(summary): nothing without a webhook; otherwise requests.post,
\* which raises on a transport failure and returns the response, whatever
\* its status code, otherwise. main then returns.
PostToSlack ==
    /\ pc = "post"
    /\ pc' = "done"
    /\ IF SLACK_WEBHOOK_URL = <<>>
       THEN /\ post_outcome' = "skipped"
            /\ exit_status' = "ok"
            /\ UNCHANGED <<calls, error>>
       ELSE /\ calls' = Append(calls, "POST webhook")
            /\ \/ /\ post_outcome' = "transport_error"
                  /\ exit_status' = "error"
                  /\ error' = "requests.RequestException"
               \/ /\ post_outcome' \in {"response_2xx", "response_non_2xx"}
                  /\ exit_status' = "ok"
                  /\ UNCHANGED error
    /\ UNCHANGED <<env_token, env_sheet_id, env_webhook, sheet, today, milestone_sets,
                   results, summary, stdout, prev_sets>>

Next == CheckConfig \/ FetchSheet \/ FindPastDue \/ PrintSummary \/ PostToSlack

Spec == Init /\ [][Next]_vars

-----------------------------------------------------------------------------
(* Vocabulary of the properties, stated on the document and not through the *)
(* functions of the program                                                  *)

Range(f) == { f[i] : i \in DOMAIN f }

\* find_past_due_milestones has been called / has returned a list
FindCalled == today # NoDate
FindReturned == FindCalled /\ error # "RuntimeError: No milestone columns found"

\* the document has no complete milestone triple
ZeroSets == detect_milestone_sets(build_column_maps(sheet).norm_to_id) = <<>>

\* s is c up to case and surrounding white space
SameTrimmedLowered(s, c) ==
    \E a \in 0..Len(s) :
        /\ a + Len(c) <= Len(s)
        /\ \A i \in 1..a : s[i] \in Whitespace
        /\ \A i \in 1..Len(c) : lower_char(s[a + i]) = c[i]
        /\ \A i \in (a + Len(c) + 1)..Len(s) : s[i] \in Whitespace
        /\ c # <<>> => s[a + 1] \notin Whitespace /\ s[a + Len(c)] \notin Whitespace

StatusIsCompleted(v) ==
    /\ v # PyNone
    /\ \E c \in COMPLETED_VALUES : SameTrimmedLowered(py_str(v), c)

\* the due date of milestone set i in row r, NoDate when it does not parse
DueOf(r, i) == parse_date(cell_value(sheet.rows[r], milestone_sets[i].date_id))

\* row r is late on milestone set i and has not completed it
LateAndOpen(r, i) ==
    /\ DueOf(r, i) # NoDate
    /\ toordinal(DueOf(r, i)) < toordinal(today)
    /\ ~StatusIsCompleted(cell_value(sheet.rows[r], milestone_sets[i].status_id))

\* the hits reported for row r under the label of milestone set i
HitsFor(r, i) ==
    { h \in UNION { Range(res.hits) : res \in { x \in Range(results) : x.row_index = r } } :
        h.label = milestone_sets[i].label }

\* position of a label in the schema
SchemaPos(label) == CHOOSE i \in 1..Len(milestone_sets) : milestone_sets[i].label = label

-----------------------------------------------------------------------------
(* Properties *)

\* C1: a (row, milestone set) pair has a hit exactly when its due date parses,
\* lies strictly before today and its trimmed lower-cased status is not a
\* completed value; every hit has days = today - due, at least 1.
C1_HitIffLateAndOpen ==
    FindReturned =>
        \A r \in 1..Len(sheet.rows) : \A i \in 1..Len(milestone_sets) :
            /\ (HitsFor(r, i) # {}) <=> LateAndOpen(r, i)
            /\ \A h \in HitsFor(r, i) :
                  /\ h.days = toordinal(today) - toordinal(DueOf(r, i))
                  /\ h.days >= 1

\* a row with a hit for one milestone whose other milestone, late as well, is
\* suppressed by a completed status
C1_Witness ==
    /\ FindReturned
    /\ \E r \in 1..Len(sheet.rows) : \E i, j \in 1..Len(milestone_sets) :
          /\ HitsFor(r, i) # {}
          /\ HitsFor(r, j) = {}
          /\ DueOf(r, j) # NoDate
          /\ toordinal(DueOf(r, j)) < toordinal(today)

\* C2: with zero milestone sets find_past_due_milestones raises and the run
\* aborts: nothing is printed and the notifier is never called.
C2_NoSetsAborts ==
    ZeroSets =>
        /\ stdout = <<>>
        /\ "POST webhook" \notin Range(calls)
        /\ FindCalled => (pc = "done" /\ exit_status = "error" /\ post_outcome = "none")

\* the run of a document with rows and no milestone set, after the error
C2_Witness ==
    /\ FindCalled
    /\ ZeroSets
    /\ sheet.rows # <<>>
    /\ error = "RuntimeError: No milestone columns found"

\* C3 as stated: every document with zero rows gets an empty result list and
\* the celebratory message, whatever its columns.
C3_ZeroRowsAnyColumns ==
    (FindCalled /\ sheet.rows = <<>>) =>
        /\ FindReturned
        /\ results = <<>>
        /\ pc \in {"post", "done"} => summary = <<NO_PAST_DUE>>

\* C3, amended: a document with zero rows and at least one milestone set gets
\* an empty result list and the celebratory message.
C3_ZeroRowsWithSets ==
    (FindCalled /\ sheet.rows = <<>> /\ ~ZeroSets) =>
        /\ FindReturned
        /\ results = <<>>
        /\ pc \in {"post", "done"} => (summary = <<NO_PAST_DUE>> /\ stdout = <<summary>>)

\* the summary of a document with milestone sets and no rows has been made
C3_Witness ==
    /\ pc = "post"
    /\ sheet.rows = <<>>
    /\ ~ZeroSets
    /\ summary = <<NO_PAST_DUE>>

\* C4: a failed notifier call (transport failure or non-success response)
\* ends the run in an error, after the summary has been printed.
C4_DeliveryFailureIsFatal ==
    post_outcome \in {"transport_error", "response_non_2xx"} =>
        /\ exit_status = "error"
        /\ stdout = <<summary>>

\* C5: with the token or the sheet identifier missing, no network request is
\* ever made, nothing is printed and the run ends in an error.
C5_MissingConfigNoNetwork ==
    (env_token \in {PyNone, PyStr(<<>>)} \/ env_sheet_id \in {PyNone, PyStr(<<>>)}) =>
        /\ calls = <<>>
        /\ stdout = <<>>
        /\ pc \in {"start", "done"}
        /\ pc = "done" => exit_status = "error"

\* a run with a token and no sheet identifier has ended
C5_Witness ==
    /\ truthy(env_token)
    /\ env_sheet_id = PyNone
    /\ pc = "done"
    /\ exit_status = "error"
    /\ calls = <<>>

\* C8: the hits of every result are non-empty, ordered by days descending,
\* and hits with equal days are in schema order.
C8_HitsSortedStable ==
    FindReturned =>
        \A k \in 1..Len(results) :
            LET hits == results[k].hits
            IN  /\ hits # <<>>
                /\ \A a, b \in 1..Len(hits) :
                      a < b =>
                        /\ hits[a].days >= hits[b].days
                        /\ hits[a].days = hits[b].days =>
                              SchemaPos(hits[a].label) < SchemaPos(hits[b].label)

\* one result whose two hits tie and one whose hits had to be swapped
C8_Witness ==
    /\ FindReturned
    /\ \E k \in 1..Len(results) :
          /\ Len(results[k].hits) = 2
          /\ results[k].hits[1].days = results[k].hits[2].days
    /\ \E k \in 1..Len(results) :
          /\ Len(results[k].hits) = 2
          /\ results[k].hits[1].days > results[k].hits[2].days
          /\ SchemaPos(results[k].hits[1].label) > SchemaPos(results[k].hits[2].label)

\* C9: one result per row that has a hit, ordered by the first (maximum) days
\* descending, rows with equal maxima in document order.
C9_ResultsSortedStable ==
    FindReturned =>
        /\ \A r \in 1..Len(sheet.rows) :
              Cardinality({ k \in 1..Len(results) : results[k].row_index = r })
                = IF \E i \in 1..Len(milestone_sets) : LateAndOpen(r, i) THEN 1 ELSE 0
        /\ \A k \in 1..Len(results) :
              /\ results[k].row_index \in 1..Len(sheet.rows)
              /\ \A h \in 1..Len(results[k].hits) :
                    results[k].hits[1].days >= results[k].hits[h].days
        /\ \A a, b \in 1..Len(results) :
              a < b =>
                /\ results[a].hits[1].days >= results[b].hits[1].days
                /\ results[a].hits[1].days = results[b].hits[1].days =>
                      results[a].row_index < results[b].row_index

\* two rows with equal maxima, reported in document order
C9_Witness ==
    /\ FindReturned
    /\ Len(results) = 2
    /\ results[1].hits[1].days = results[2].hits[1].days
    /\ results[1].row_index < results[2].row_index

\* the effective value of column col_id in row r: the raw value if the cell
\* has one, else the display value; Absent if there is neither
Absent == [t |-> "absent", s |-> <<>>, n |-> 0]
EffectiveValue(r, col_id) ==
    LET row == sheet.rows[r]
        at == { c \in 1..Len(row) : row[c].columnId = col_id }
        first == CHOOSE c \in at : \A d \in at : c <= d
    IN  IF at = {} THEN Absent
        ELSE IF row[first].has_value THEN row[first].value
        ELSE IF row[first].has_display THEN row[first].displayValue
        ELSE Absent

PrimaryColumn ==
    LET ps == { c \in 1..Len(sheet.columns) : sheet.columns[c].primary }
    IN  sheet.columns[CHOOSE c \in ps : \A d \in ps : d <= c].id

\* C10: the project name is the effective value of the primary cell whenever
\* there is one and the placeholder only when it is absent; the milestone
\* title of a hit is the title cell's value, the label only when absent.
C10_NamesAreEffectiveValues ==
    FindReturned =>
        \A k \in 1..Len(results) :
            LET r == results[k].row_index
                name == EffectiveValue(r, PrimaryColumn)
            IN  /\ results[k].project = IF name = Absent THEN UNNAMED_PROJECT ELSE name
                /\ \A h \in 1..Len(results[k].hits) :
                      LET hit == results[k].hits[h]
                          ms == milestone_sets[SchemaPos(hit.label)]
                          title == EffectiveValue(r, ms.title_id)
                      IN  hit.milestone = IF title = Absent THEN PyStr(ms.label) ELSE title

-----------------------------------------------------------------------------
(* Column detection on its own: build_column_maps and detect_milestone_sets  *)
(* applied to a column list, and again after two neighbouring columns trade  *)
(* places, so that every ordering of the list is reached.                    *)

\* titles with a collision of normalized names (M1, " m1 ") and two names of
\* the same number (M1, M01)
TitlesA == <<S_M1, S_M1DATE, S_M1STATUS, S_M01, S_M01DATE, S_M01STATUS, S_M1_PADDED>>
\* titles whose numeric and alphabetic orders differ (M2, M10)
TitlesB == <<S_M2, S_M2DATE, S_M2STATUS, S_M10, S_M10DATE, S_M10STATUS>>

RECURSIVE ColumnsAt(_, _, _)
\* the columns of the titles at the positions I, in increasing position
ColumnsAt(titles, base_id, I) ==
    IF I = {} THEN <<>>
    ELSE LET i == CHOOSE x \in I : \A y \in I : x <= y
         IN  <<Column(titles[i], base_id + i, titles[i] = S_PROJECT)>>
             \o ColumnsAt(titles, base_id, I \ {i})

ColumnLists ==
    { ColumnsAt(TitlesA, 0, I) : I \in { J \in SUBSET (1..Len(TitlesA)) : Cardinality(J) <= MaxCols } }
    \cup
    { ColumnsAt(TitlesB, 10, I) : I \in { J \in SUBSET (1..Len(TitlesB)) : Cardinality(J) <= MaxCols } }

InitDetect ==
    /\ sheet \in { [columns |-> cs, rows |-> <<>>] : cs \in ColumnLists }
    /\ pc = "columns"
    /\ env_token = PyNone
    /\ env_sheet_id = PyNone
    /\ env_webhook = PyNone
    /\ today = NoDate
    /\ milestone_sets = <<>>
    /\ prev_sets = <<>>
    /\ results = <<>>
    /\ summary = <<>>
    /\ stdout = <<>>
    /\ calls = <<>>
    /\ post_outcome = "none"
    /\ exit_status = "running"
    /\ error = "none"

\* _, norm_to_id, _ = build_column_maps(sheet);
\* milestone_sets = detect_milestone_sets(norm_to_id)
DetectSets ==
    /\ pc = "columns"
    /\ pc' = "detected"
    /\ milestone_sets' = detect_milestone_sets(build_column_maps(sheet).norm_to_id)
    /\ prev_sets' = detect_milestone_sets(build_column_maps(sheet).norm_to_id)
    /\ UNCHANGED <<env_token, env_sheet_id, env_webhook, sheet, today, results,
                   summary, stdout, calls, post_outcome, exit_status, error>>

\* the same two calls on the list with columns i and i + 1 exchanged
ReorderAndDetect ==
    /\ pc = "detected"
    /\ \E i \in 1..(Len(sheet.columns) - 1) :
          LET reordered == [sheet EXCEPT !.columns =
                              [sheet.columns EXCEPT ![i] = sheet.columns[i + 1],
                                                    ![i + 1] = sheet.columns[i]]]
          IN  /\ sheet' = reordered
              /\ milestone_sets' =
                    detect_milestone_sets(build_column_maps(reordered).norm_to_id)
    /\ prev_sets' = milestone_sets
    /\ UNCHANGED <<env_token, env_sheet_id, env_webhook, pc, today, results,
                   summary, stdout, calls, post_outcome, exit_status, error>>

NextDetect == DetectSets \/ ReorderAndDetect

SpecDetect == InitDetect /\ [][NextDetect]_vars

\* the normalized name of a column
NormTitle(c) == str_lower(str_strip(c.title))

\* the normalized names of the columns, by position
NormTitles == [k \in 1..Len(sheet.columns) |-> NormTitle(sheet.columns[k])]

\* the digit strings n with names m<n>, m<n> date and m<n> status in norms
CompleteNumbersOf(norms) ==
    { Tail(nm) : nm \in
        { x \in Range(norms) :
            /\ Len(x) >= 2
            /\ x[1] = "m"
            /\ \A k \in 2..Len(x) : IsDigit(x[k])
            /\ (x \o <<" ","d","a","t","e">>) \in Range(norms)
            /\ (x \o <<" ","s","t","a","t","u","s">>) \in Range(norms) } }

\* the ids of the columns whose normalized name is name
IdsNamed(norms, name) ==
    { sheet.columns[k].id : k \in { x \in 1..Len(norms) : norms[x] = name } }

DistinctNormalizedTitles == Cardinality(Range(NormTitles)) = Len(sheet.columns)

DistinctSetNumbers ==
    \A a, b \in 1..Len(milestone_sets) :
        a # b => py_int(Tail(milestone_sets[a].label)) # py_int(Tail(milestone_sets[b].label))

\* C6 as stated: detection on a permutation of the column list gives the same
\* schema list.
C6_OrderIndependent ==
    pc = "detected" => milestone_sets = prev_sets

\* C6, amended: detection on a permutation gives the same schema list when the
\* normalized titles are pairwise distinct and no two detected sets have the
\* same number.
C6_OrderIndependentDistinct ==
    (pc = "detected" /\ DistinctNormalizedTitles /\ DistinctSetNumbers) =>
        milestone_sets = prev_sets

\* two sets detected from a list in which the dict order of the names is not
\* the schema order
C6_Witness ==
    /\ pc = "detected"
    /\ DistinctNormalizedTitles
    /\ DistinctSetNumbers
    /\ Len(milestone_sets) = 2
    /\ milestone_sets = prev_sets
    /\ detect_loop(build_column_maps(sheet).norm_to_id, 1) # milestone_sets

\* the schema list has one entry per number of complete, with the ids of the
\* three columns of that number, in ascending numeric order
SchemaMatches(norms, complete) ==
    /\ { Tail(milestone_sets[k].label) : k \in 1..Len(milestone_sets) } = complete
    /\ Len(milestone_sets) = Cardinality(complete)
    /\ \A k \in 1..Len(milestone_sets) :
          LET ms == milestone_sets[k]
              base == <<"m">> \o Tail(ms.label)
          IN  /\ ms.label[1] = "M"
              /\ ms.title_id \in IdsNamed(norms, base)
              /\ ms.date_id \in IdsNamed(norms, base \o <<" ","d","a","t","e">>)
              /\ ms.status_id \in IdsNamed(norms, base \o <<" ","s","t","a","t","u","s">>)
    /\ \A a, b \in 1..Len(milestone_sets) :
          a < b => py_int(Tail(milestone_sets[a].label))
                     <= py_int(Tail(milestone_sets[b].label))

\* C7: one entry per name m<n> that has both companions and no other entry,
\* each with the ids of its three columns, ordered by the number n ascending.
C7_CompleteTriplesNumericOrder ==
    pc = "detected" => SchemaMatches(NormTitles, CompleteNumbersOf(NormTitles))

\* M2 and M10 detected in this order from a list that names M10 first
C7_Witness ==
    /\ pc = "detected"
    /\ Len(milestone_sets) = 2
    /\ milestone_sets[1].label = <<"M","2">>
    /\ milestone_sets[2].label = <<"M","1","0">>
    /\ \E a, b \in 1..Len(sheet.columns) :
          /\ a < b
          /\ sheet.columns[a].title = S_M10
          /\ sheet.columns[b].title = S_M2

====
